---- MODULE Spec2Model ----
(***************************************************************************)
(* A model of django-request-replay's replay tool (apply_history_db.py):   *)
(* the record store reader, the sanitizer, the orchestration of a run      *)
(* (validate, dry-run preview, interactive / non-interactive replay) and   *)
(* the pager.                                                              *)
(***************************************************************************)
EXTENDS Integers, Sequences, FiniteSets, TLC

(***************************************************************************)
(* Bounds of the model.                                                    *)
(***************************************************************************)
\* rows of the record store in a whole run
MaxRows == 2
\* rows of the record store when only the sanitizer is applied
MaxSanRows == 6
\* consecutive invalid answers to one prompt
MaxReprompts == 2
\* how far above the first line the pager is followed
MaxScrollBack == 2
\* rows given to the table when the records setter is taken alone
MaxTableRows == 2
\* longest text given to truncate_text when it is taken alone
MaxTextLen == 1503
\* lines of the content and rows of the terminal when the pager is taken
\* alone
MaxPagerLines == 6
MaxPagerRows == 5

VARIABLES
    store,              \* rows of the history table, in the table's order
    conf,               \* Configuration
    pc,                 \* position of the script
    exit_code,          \* process exit status, meaningful once pc = "exited"
    exit_message,       \* message given to exit_with_message
    raised,             \* the exception raised last ("none": none yet)
    sqlite_failed,      \* some query raised sqlite3.Error
    scans,              \* SELECT queries executed
    records_to_replay,  \* the list replay_requests iterates
    request_num,        \* enumerate(records_to_replay, start=1) position
    requests,           \* HTTP requests issued, oldest first
    in_flight,          \* requests.request has been called and not returned
    n_responses,        \* calls of requests.request that returned or raised
    failures,           \* responses classified as failed
    last_response,      \* (success, status_code) process_record returned; a
                        \* local of the loop body, <<>> outside it
    reprompts,          \* invalid answers given to the current prompt
    answers,            \* what the user answered to each prompt, oldest first
    failed_ids,         \* ids of the records whose request got a non-2xx
                        \* response or raised
    arg,                \* argument of a function evaluated on its own
    rendered,           \* rows last given to PrettyTableWrapper.records
    inspected,          \* the sanitized list validate has counted
    current_line,       \* PyLess.display: top line
    total_lines,        \* PyLess.display: len(content)
    page_size,          \* PyLess.page_size
    settings,           \* django.conf.settings as request_logger.conf left it
    middleware,         \* the fields of the DjangoRequestsHistoryMiddleware
                        \* instance
    threads,            \* the calls of the middleware: position and locals
    command_queue,      \* SIMULATED_STATE["command_queue"]
    served              \* the calls of the views and what they answered,
                        \* oldest first

vars == <<store, conf, pc, exit_code, exit_message, raised, sqlite_failed,
          scans, records_to_replay, request_num, requests, in_flight,
          n_responses, failures, last_response, reprompts, answers,
          failed_ids, arg, rendered, inspected, current_line, total_lines,
          page_size, settings, middleware, threads, command_queue, served>>

runVars == <<records_to_replay, request_num, requests, in_flight,
             n_responses, failures, last_response, reprompts, answers,
             failed_ids, arg>>
pagerVars == <<current_line, total_lines, page_size>>
exitVars == <<exit_code, exit_message, raised>>
webVars == <<settings, middleware, threads, command_queue, served>>

(***************************************************************************)
(* Inputs.                                                                 *)
(***************************************************************************)
base_url == "http://h"

\* What a stored request_data_binary is to json.loads, dict() and decode():
\*   "object"    UTF-8 text of a JSON object
\*   "invalid"   UTF-8 text that is not JSON (json.JSONDecodeError)
\*   "nonobject" UTF-8 text of a JSON document dict() rejects: a number,
\*               null, a list of numbers, a non-empty string (TypeError or
\*               ValueError, written "TypeError")
\*   "binary"    bytes that no codec json.loads tries, nor bytes.decode(),
\*               can decode (UnicodeDecodeError)
RecordShapes ==
    { [request_path |-> "/api/x", request_data |-> "object"],
      [request_path |-> "/api/x", request_data |-> "invalid"],
      [request_path |-> "/api/x", request_data |-> "nonobject"],
      [request_path |-> "/api/x", request_data |-> "binary"],
      [request_path |-> "/api/y", request_data |-> "object"] }

PathShapes == { s \in RecordShapes : s.request_data = "object" }

ExcludedChoices == { {}, {"/api/y"} }

StatusCodes == {199, 200, 201, 299, 300, 500}

\* --db-file as it is given: relative to the working directory, or absolute
DbFiles == {"db.sqlite3", "/data/db.sqlite3"}

\* Path(db_path).expanduser().resolve(), the working directory being /data
Resolve(db_file) == "/data/db.sqlite3"

\* status codes handle_response is evaluated on when taken alone
ResponseCodes == 100..599

InputLines == {"y", "YES", "n", "No", "", "q", "Q", "maybe"}

Keys == {"q", "Q", " ", "\r", "j"}

TermRows == {0, 1, 2, 4}

\* the rows of a table: the store numbers them as it inserts them
Row(i, shape) ==
    [id |-> i, request_method |-> "POST",
     request_path |-> shape.request_path, request_data |-> shape.request_data]

Stores(shapes, n) ==
    UNION { { [i \in 1..k |-> Row(i, f[i])] : f \in [1..k -> shapes] } : k \in 0..n }

Min(a, b) == IF a < b THEN a ELSE b
Max(a, b) == IF a > b THEN a ELSE b

(***************************************************************************)
(* Record Store Reader and Sanitizer.                                      *)
(***************************************************************************)
\* DatabaseTableManager.__fetch_rows / records: the rows, or [] on sqlite3.Error
records(rows, sqlite_error) == IF sqlite_error THEN <<>> ELSE rows

\* s[k:] of Python, k a 0-based index that may be negative or past the end
PySliceFrom(s, k) ==
    LET start == IF k < 0 THEN Max(Len(s) + k, 0) ELSE Min(k, Len(s))
    IN  SubSeq(s, start + 1, Len(s))

\* for row in rows: if path not in excluded_urls: acc.append(row)
RECURSIVE AppendNotExcluded(_, _, _)
AppendNotExcluded(acc, rows, excluded_urls) ==
    IF rows = <<>> THEN acc
    ELSE AppendNotExcluded(
            IF Head(rows).request_path \notin excluded_urls
            THEN Append(acc, Head(rows)) ELSE acc,
            Tail(rows), excluded_urls)

\* the slice the --start-from-id help text describes
sanitized_records_slice(rows, excluded_urls, start_from_id) ==
    PySliceFrom(AppendNotExcluded(<<>>, rows, excluded_urls), start_from_id - 1)

\* a sanitizer that forgets the exclusion list
sanitized_records_unfiltered(rows, excluded_urls, start_from_id) ==
    rows \o PySliceFrom(rows, start_from_id - 1)

\* a sanitizer that appends the whole filtered list a second time
sanitized_records_twice(rows, excluded_urls, start_from_id) ==
    LET first == AppendNotExcluded(<<>>, rows, excluded_urls)
    IN  first \o first

\* a second pass that walks the list it appends to; it is cut off at three
\* times the filtered list
RECURSIVE AppendFromItself(_, _, _)
AppendFromItself(acc, index, limit) ==
    IF index > Len(acc) \/ Len(acc) >= limit
    THEN acc
    ELSE AppendFromItself(Append(acc, acc[index]), index + 1, limit)

sanitized_records_live(rows, excluded_urls, start_from_id) ==
    LET first == AppendNotExcluded(<<>>, rows, excluded_urls)
    IN  AppendFromItself(first, Max(start_from_id, 1), 3 * Len(first))

\* HistoryDatabaseManager.sanitized_records
sanitized_records(rows, excluded_urls, start_from_id) ==
    LET first == AppendNotExcluded(<<>>, rows, excluded_urls)
    IN  AppendNotExcluded(first, PySliceFrom(first, start_from_id - 1), excluded_urls)

(***************************************************************************)
(* Replay engine helpers.                                                  *)
(***************************************************************************)
\* RequestReplayer.parse_request_data: the json argument, or the exception
parse_request_data(data) ==
    CASE data = "object"    -> [raises |-> "none", json |-> "dict"]
      [] data = "invalid"   -> [raises |-> "none", json |-> "None"]
      [] data = "nonobject" -> [raises |-> "TypeError", json |-> "None"]
      [] data = "binary"    -> [raises |-> "UnicodeDecodeError", json |-> "None"]

\* a classification whose range leaves its two ends out
handle_response_exclusive(status_code) ==
    <<(200 < status_code /\ status_code < 299), status_code>>

\* RequestReplayer.handle_response
handle_response(status_code) ==
    <<(200 <= status_code /\ status_code <= 299), status_code>>

\* the records setter decodes every bytes cell
RenderRaises(rows) ==
    \E i \in 1..Len(rows) : rows[i].request_data = "binary"

\* str(PrettyTable) with hrules ALL: a border, the header, a border, then a
\* line and a border for each row
TableLines(rows) == 3 + 2 * Len(rows)

\* What the user means by a line typed at the prompt "[y/N/q]": yes or y
\* to execute, no, n or nothing to skip, q to quit, in either case of
\* letters; anything else means nothing
YesLines == {"y", "YES"}
NoLines == {"n", "No", ""}
QuitLines == {"q", "Q"}

Meant(line) ==
    IF line \in YesLines THEN "EXECUTE"
    ELSE IF line \in NoLines THEN "SKIP"
    ELSE IF line \in QuitLines THEN "QUIT"
    ELSE "INVALID"

\* a reader of answers that forgets str.lower
Lower_forgotten(s) == s

\* str.lower on the answers and keys the model draws
Lower(s) ==
    CASE s = "YES" -> "yes"
      [] s = "No"  -> "no"
      [] s = "Q"   -> "q"
      [] OTHER     -> s

\* a mapping that takes every known word for a yes
valid_mapping_all_yes == [yes |-> TRUE, y |-> TRUE, no |-> TRUE, n |-> TRUE]

valid_mapping == [yes |-> TRUE, y |-> TRUE, no |-> FALSE, n |-> FALSE]

\* the answer an empty line stands for
DEFAULT_INTERACTIVE_ASK_YES_NO_ANSWER == "no"

\* an abort decision that ignores --skip-request-errors being off
replay_none_interactive_exits_never(success, skip_request_errors) == FALSE

\* __replay_none_interactive: whether exit_with_message is reached
replay_none_interactive_exits(success, skip_request_errors) ==
    ~success /\ ~skip_request_errors

\* a script that forgets the --dry-run test
after_validate_replays(dry_run) == "replay"

\* __main__ after request_replayer.validate(): the preview or the replay
after_validate(dry_run) == IF dry_run THEN "dry_run" ELSE "replay"

\* a loop that walks the list from its end
enumerate_record_reversed(records_to_replay_, request_num_) ==
    records_to_replay_[Len(records_to_replay_) + 1 - request_num_]

\* for request_num, record in enumerate(records_to_replay, start=1)
enumerate_record(records_to_replay_, request_num_) ==
    records_to_replay_[request_num_]

(***************************************************************************)
(* Leaving the process.                                                    *)
(***************************************************************************)
\* sys.exit(code) from exit_with_message(message, code)
exit_with_message(message, code) ==
    /\ pc' = "exited"
    /\ exit_code' = code
    /\ exit_message' = message
    /\ UNCHANGED raised

\* an exception nobody catches: traceback, status 1
Uncaught(exception) ==
    /\ pc' = "exited"
    /\ exit_code' = 1
    /\ raised' = exception
    /\ UNCHANGED exit_message

\* the script runs off its last line
ScriptEnds ==
    /\ pc' = "exited"
    /\ exit_code' = 0
    /\ UNCHANGED <<exit_message, raised>>

Goto(label) == pc' = label /\ UNCHANGED exitVars

(***************************************************************************)
(* The web application before it has served a request.                     *)
(***************************************************************************)
\* the threads that call the middleware instance
Threads == {1, 2}

\* request_logger.conf: the defaults
DefaultSettings ==
    [DJANGO_REQUESTS_HISTORY_ENABLE |-> TRUE,
     DJANGO_REQUESTS_HISTORY_SAVABLE_REQUEST_METHODS |->
         {"POST", "PATCH", "PUT", "DELETE"},
     DJANGO_REQUESTS_HISTORY_EXCLUDING_URL_NAMES |-> {}]

\* RequestResponseDataObject(): the fields the middleware saves; None and
\* bytes() are written "None" and ""
RequestResponseDataObject ==
    [request_method |-> "",
     request_path |-> "",
     request_data_binary |-> "",
     request_content_type |-> "",
     response_status_code |-> 0]

\* DjangoRequestsHistoryMiddleware.__init__; a field that is None is <<>>,
\* one that holds an object is <<object>>
MiddlewareInit ==
    [request |-> <<>>,
     response |-> <<>>,
     request_response_info |-> RequestResponseDataObject]

\* a thread that has no request: pc, the argument of __call__, the calls of
\* get_response made for it and their result, what __call__ returned
NoCall ==
    [pc |-> "idle", request |-> <<>>, view_calls |-> 0,
     view_response |-> <<>>, returned |-> <<>>]

Unserved ==
    /\ settings = DefaultSettings
    /\ middleware = MiddlewareInit
    /\ threads = [t \in Threads |-> NoCall]
    /\ command_queue = <<>>
    /\ served = <<>>

(***************************************************************************)
(* The state after the interpreter has loaded the script.                  *)
(***************************************************************************)
Idle ==
    /\ exit_code = 0
    /\ exit_message = ""
    /\ raised = "none"
    /\ sqlite_failed = FALSE
    /\ scans = 0
    /\ records_to_replay = <<>>
    /\ request_num = 0
    /\ requests = <<>>
    /\ in_flight = FALSE
    /\ n_responses = 0
    /\ failures = 0
    /\ last_response = <<>>
    /\ reprompts = 0
    /\ answers = <<>>
    /\ failed_ids = {}
    /\ rendered = <<>>
    /\ inspected = <<>>
    /\ current_line = 0
    /\ total_lines = 0
    /\ page_size = 0

Init ==
    /\ store \in Stores(RecordShapes, MaxRows)
    /\ conf \in [excluded_urls : ExcludedChoices,
                 start_from_id : (-1)..(MaxRows + 1),
                 dry_run : BOOLEAN,
                 interactive : BOOLEAN,
                 skip_request_errors : BOOLEAN]
    /\ pc = "start"
    /\ arg = <<>>
    /\ Idle
    /\ Unserved

(***************************************************************************)
(* __main__: configuration, construction, validation.                      *)
(***************************************************************************)
\* a configuration that is built and never validated
from_parse_args_unvalidated ==
    /\ pc = "start"
    /\ Goto("construct")
    /\ UNCHANGED <<store, conf, sqlite_failed, scans, rendered>>
    /\ UNCHANGED runVars
    /\ UNCHANGED pagerVars
    /\ UNCHANGED inspected
    /\ UNCHANGED webVars

\* Configuration.from_parse_args: parse_args, then validate
from_parse_args ==
    /\ pc = "start"
    /\ IF conf.start_from_id <= 0
       THEN Uncaught("ValueError")
       ELSE Goto("construct")
    /\ UNCHANGED <<store, conf, sqlite_failed, scans, rendered>>
    /\ UNCHANGED runVars
    /\ UNCHANGED pagerVars
    /\ UNCHANGED inspected
    /\ UNCHANGED webVars

\* DatabaseTableManager.__init__: __validate_if_db_exists
validate_if_db_exists ==
    /\ pc = "construct"
    /\ \E exists \in BOOLEAN :
         IF exists
         THEN Goto("validate")
         ELSE exit_with_message("DB does not exist.", 1)
    /\ UNCHANGED <<store, conf, sqlite_failed, scans, rendered>>
    /\ UNCHANGED runVars
    /\ UNCHANGED pagerVars
    /\ UNCHANGED inspected
    /\ UNCHANGED webVars

\* one SELECT over the table
Scanned(sqlite_error) ==
    /\ scans' = scans + 1
    /\ sqlite_failed' = (sqlite_failed \/ sqlite_error)

\* RequestReplayer.validate: total_records = self.__db_manager.records
validate_total_records ==
    /\ pc = "validate"
    /\ \E sqlite_error \in BOOLEAN : Scanned(sqlite_error)
    /\ Goto("validate_records")
    /\ UNCHANGED <<store, conf, rendered>>
    /\ UNCHANGED runVars
    /\ UNCHANGED pagerVars
    /\ UNCHANGED inspected
    /\ UNCHANGED webVars

\* the message of both exits on an empty list
NoProcessable(path) ==
    "There are no processable records on db '" \o path \o "'"

\* get_to_be_processed_records, first half: records, exit when there are
\* none. The message names db_manager.db_path; --db-file is read nowhere
\* else than in the messages, so its value is drawn where it is printed.
get_records(next) ==
    \E sqlite_error \in BOOLEAN :
        /\ Scanned(sqlite_error)
        /\ IF records(store, sqlite_error) = <<>>
           THEN \E db_file \in DbFiles :
                    exit_with_message(NoProcessable(Resolve(db_file)), 1)
           ELSE Goto(next)

validate_get_records ==
    /\ pc = "validate_records"
    /\ get_records("validate_sanitized")
    /\ UNCHANGED <<store, conf, rendered>>
    /\ UNCHANGED runVars
    /\ UNCHANGED pagerVars
    /\ UNCHANGED inspected
    /\ UNCHANGED webVars

\* get_to_be_processed_records, second half, and the rest of validate; the
\* message names conf.db_file
validate_sanitized ==
    /\ pc = "validate_sanitized"
    /\ \E sqlite_error \in BOOLEAN :
        /\ Scanned(sqlite_error)
        /\ inspected' = sanitized_records(records(store, sqlite_error),
                                          conf.excluded_urls, conf.start_from_id)
        /\ IF inspected' = <<>>
           THEN \E db_file \in DbFiles :
                    exit_with_message(NoProcessable(db_file), 1)
           ELSE Goto(after_validate(conf.dry_run))
    /\ UNCHANGED <<store, conf, rendered>>
    /\ UNCHANGED runVars
    /\ UNCHANGED pagerVars
    /\ UNCHANGED webVars

(***************************************************************************)
(* Dry run: the table of the sanitized records, paged in interactive mode. *)
(***************************************************************************)
\* HistoryDatabaseManager.print_sanitized_records: the records setter, then
\* do_print, which hands the table to PyLess when enable_less is set
print_sanitized_records ==
    /\ pc = "dry_run"
    /\ \E sqlite_error \in BOOLEAN, rows \in TermRows :
        LET sanitized == sanitized_records(records(store, sqlite_error),
                                           conf.excluded_urls, conf.start_from_id)
        IN  /\ Scanned(sqlite_error)
            /\ rendered' = sanitized
            /\ IF RenderRaises(sanitized)
               THEN Uncaught("UnicodeDecodeError") /\ UNCHANGED pagerVars
               ELSE IF sanitized = <<>>
               THEN Uncaught("AssertionError") /\ UNCHANGED pagerVars
               ELSE IF conf.interactive
               THEN /\ Goto("pager")
                    /\ current_line' = 0
                    /\ total_lines' = TableLines(sanitized)
                    /\ page_size' = rows - 1
               ELSE Goto("printed") /\ UNCHANGED pagerVars
    /\ UNCHANGED <<store, conf>>
    /\ UNCHANGED runVars
    /\ UNCHANGED inspected
    /\ UNCHANGED webVars

\* a pager whose page key is not held back on the last line
display_turn_unguarded(key, current_line_, page_size_, total_lines_) ==
    LET end_line == Min(current_line_ + page_size_, total_lines_)
        next_line ==
            IF Lower(key) = "q" THEN current_line_
            ELSE IF key = " " THEN end_line
            ELSE IF key = "\r" THEN current_line_ + 1
            ELSE current_line_
    IN  [line |-> next_line,
         leaves |-> Lower(key) = "q" \/ next_line >= total_lines_]

\* a pager whose page key moves on by one line
display_turn_by_line(key, current_line_, page_size_, total_lines_) ==
    LET next_line ==
            IF Lower(key) = "q" THEN current_line_
            ELSE IF key = " " /\ current_line_ < total_lines_ - 1
            THEN current_line_ + 1
            ELSE IF key = "\r" THEN current_line_ + 1
            ELSE current_line_
    IN  [line |-> next_line,
         leaves |-> Lower(key) = "q" \/ next_line >= total_lines_]

\* the body of the loop of PyLess.display once getch has returned key: the
\* top line it leaves, and whether the loop ends (break, or the loop test)
display_turn(key, current_line_, page_size_, total_lines_) ==
    LET end_line == Min(current_line_ + page_size_, total_lines_)
        next_line ==
            IF Lower(key) = "q" THEN current_line_
            ELSE IF key = " " /\ current_line_ < total_lines_ - 1 THEN end_line
            ELSE IF key = "\r" THEN current_line_ + 1
            ELSE current_line_
    IN  [line |-> next_line,
         leaves |-> Lower(key) = "q" \/ next_line >= total_lines_]

\* PyLess.display: one turn of the loop, getch having returned key
display_key(key) ==
    /\ pc = "pager"
    /\ LET turn == display_turn(key, current_line, page_size, total_lines)
       IN  /\ turn.line >= 0 - MaxScrollBack
           /\ current_line' = turn.line
           /\ Goto(IF turn.leaves THEN "printed" ELSE "pager")
    /\ UNCHANGED <<store, conf, sqlite_failed, scans, rendered, total_lines, page_size>>
    /\ UNCHANGED runVars
    /\ UNCHANGED inspected
    /\ UNCHANGED webVars

\* PyLess.display: one turn of the loop, from getch to the loop test
display == \E key \in Keys : display_key(key)

\* __main__: exit_with_message('done.', code=0) after the preview
dry_run_exit ==
    /\ pc = "printed"
    /\ exit_with_message("done.", 0)
    /\ UNCHANGED <<store, conf, sqlite_failed, scans, rendered>>
    /\ UNCHANGED runVars
    /\ UNCHANGED pagerVars
    /\ UNCHANGED inspected
    /\ UNCHANGED webVars

\* a reader that deletes the rows it has read
start_replay_get_records_consuming ==
    /\ pc = "replay"
    /\ get_records("replay_sanitized")
    /\ store' = <<>>
    /\ UNCHANGED <<conf, rendered>>
    /\ UNCHANGED runVars
    /\ UNCHANGED pagerVars
    /\ UNCHANGED inspected
    /\ UNCHANGED webVars

(***************************************************************************)
(* Replay.                                                                 *)
(***************************************************************************)
\* start_replay: get_to_be_processed_records, first half
start_replay_get_records ==
    /\ pc = "replay"
    /\ get_records("replay_sanitized")
    /\ UNCHANGED <<store, conf, rendered>>
    /\ UNCHANGED runVars
    /\ UNCHANGED pagerVars
    /\ UNCHANGED inspected
    /\ UNCHANGED webVars

\* start_replay: get_to_be_processed_records, second half; the loop begins
start_replay_sanitized ==
    /\ pc = "replay_sanitized"
    /\ \E sqlite_error \in BOOLEAN :
        /\ Scanned(sqlite_error)
        /\ records_to_replay' = sanitized_records(records(store, sqlite_error),
                                    conf.excluded_urls, conf.start_from_id)
    /\ request_num' = 1
    /\ Goto("loop")
    /\ UNCHANGED <<store, conf, rendered, requests, in_flight, n_responses,
                   failures, last_response, reprompts, answers, failed_ids,
                   arg>>
    /\ UNCHANGED pagerVars
    /\ UNCHANGED inspected
    /\ UNCHANGED webVars

\* replay_requests: the head of the for loop, where the outcome of the
\* previous turn is gone; in interactive mode the one-row table of
\* __replay_interactive is built before the prompt
replay_requests ==
    /\ pc = "loop"
    /\ IF request_num > Len(records_to_replay)
       THEN ScriptEnds /\ UNCHANGED <<rendered, reprompts>>
       ELSE IF ~conf.interactive
       THEN Goto("process") /\ UNCHANGED <<rendered, reprompts>>
       ELSE /\ rendered' = <<enumerate_record(records_to_replay, request_num)>>
            /\ reprompts' = 0
            /\ IF RenderRaises(<<enumerate_record(records_to_replay, request_num)>>)
               THEN Uncaught("UnicodeDecodeError")
               ELSE Goto("ask")
    /\ last_response' = <<>>
    /\ UNCHANGED <<store, conf, sqlite_failed, scans, records_to_replay, request_num,
                   requests, in_flight, n_responses, failures, answers,
                   failed_ids, arg>>
    /\ UNCHANGED pagerVars
    /\ UNCHANGED inspected
    /\ UNCHANGED webVars

\* CommandLineInterfaceUtils.ask_yes_no: one line of input, and what
\* __replay_interactive does with the answer up to process_record
ask_yes_no ==
    /\ pc = "ask"
    /\ \E line \in InputLines :
        LET user_choice == Lower(line)
            answered(is_answer_yes) ==
                IF is_answer_yes
                THEN Goto("process") /\ UNCHANGED <<request_num, reprompts>>
                ELSE /\ Goto("loop")
                     /\ request_num' = request_num + 1
                     /\ UNCHANGED reprompts
        IN  /\ answers' = IF Meant(line) = "INVALID" THEN answers
                          ELSE Append(answers, [num |-> request_num,
                                                answer |-> Meant(line)])
            /\ IF user_choice = "q"
               THEN ScriptEnds /\ UNCHANGED <<request_num, reprompts>>
               ELSE IF user_choice = ""
               THEN answered(valid_mapping[DEFAULT_INTERACTIVE_ASK_YES_NO_ANSWER])
               ELSE IF user_choice \notin DOMAIN valid_mapping
               THEN /\ reprompts < MaxReprompts
                    /\ reprompts' = reprompts + 1
                    /\ Goto("ask")
                    /\ UNCHANGED request_num
               ELSE answered(valid_mapping[user_choice])
    /\ UNCHANGED <<store, conf, sqlite_failed, scans, rendered, records_to_replay,
                   requests, in_flight, n_responses, failures, last_response,
                   failed_ids, arg>>
    /\ UNCHANGED pagerVars
    /\ UNCHANGED inspected
    /\ UNCHANGED webVars

\* process_record up to the call of requests.request
process_record ==
    /\ pc = "process"
    /\ LET record == enumerate_record(records_to_replay, request_num)
           parsed == parse_request_data(record.request_data)
       IN  IF parsed.raises # "none"
           THEN Uncaught(parsed.raises) /\ UNCHANGED <<requests, in_flight>>
           ELSE /\ requests' = Append(requests,
                                  [num |-> request_num,
                                   id |-> record.id,
                                   method |-> record.request_method,
                                   url |-> base_url \o record.request_path,
                                   json |-> parsed.json])
                /\ in_flight' = TRUE
                /\ Goto("await")
    /\ UNCHANGED <<store, conf, sqlite_failed, scans, rendered, records_to_replay,
                   request_num, n_responses, failures, last_response, reprompts,
                   answers, failed_ids, arg>>
    /\ UNCHANGED pagerVars
    /\ UNCHANGED inspected
    /\ UNCHANGED webVars

\* requests.request returns: the records setter, handle_response, and the
\* caller's decision (__replay_none_interactive or __replay_interactive).
\* The outcome is a local of the caller: it is alive when the caller exits
\* and gone when the caller returns to the loop.
send_request_returns ==
    /\ pc = "await"
    /\ \E status_code \in StatusCodes :
        LET outcome == handle_response(status_code)
            success == outcome[1]
        IN  /\ failures' = failures + (IF success THEN 0 ELSE 1)
            /\ failed_ids' = IF success THEN failed_ids
                             ELSE failed_ids \cup {requests[Len(requests)].id}
            /\ IF ~conf.interactive
                  /\ replay_none_interactive_exits(success, conf.skip_request_errors)
               THEN /\ exit_with_message("Exiting after receiving error...", 1)
                    /\ last_response' = outcome
                    /\ UNCHANGED request_num
               ELSE /\ Goto("loop")
                    /\ last_response' = <<>>
                    /\ request_num' = request_num + 1
    /\ in_flight' = FALSE
    /\ n_responses' = n_responses + 1
    /\ rendered' = <<enumerate_record(records_to_replay, request_num)>>
    /\ UNCHANGED <<store, conf, sqlite_failed, scans, records_to_replay, requests,
                   reprompts, answers, arg>>
    /\ UNCHANGED pagerVars
    /\ UNCHANGED inspected
    /\ UNCHANGED webVars

\* an except clause that prints the exception and lets the loop go on
send_request_raises_swallowed ==
    /\ pc = "await"
    /\ in_flight' = FALSE
    /\ n_responses' = n_responses + 1
    /\ raised' = "RequestException"
    /\ pc' = "loop"
    /\ request_num' = request_num + 1
    /\ UNCHANGED <<exit_code, exit_message>>
    /\ failed_ids' = failed_ids \cup {requests[Len(requests)].id}
    /\ UNCHANGED <<store, conf, sqlite_failed, scans, rendered, records_to_replay,
                   requests, failures, last_response, reprompts, answers, arg>>
    /\ UNCHANGED pagerVars
    /\ UNCHANGED inspected
    /\ UNCHANGED webVars

\* requests.request raises requests.RequestException: __send_request prints
\* it and raises it again, and no caller catches it
send_request_raises ==
    /\ pc = "await"
    /\ in_flight' = FALSE
    /\ n_responses' = n_responses + 1
    /\ Uncaught("RequestException")
    /\ failed_ids' = failed_ids \cup {requests[Len(requests)].id}
    /\ UNCHANGED <<store, conf, sqlite_failed, scans, rendered, records_to_replay,
                   request_num, requests, failures, last_response, reprompts,
                   answers, arg>>
    /\ UNCHANGED pagerVars
    /\ UNCHANGED inspected
    /\ UNCHANGED webVars

Next ==
    \/ from_parse_args
    \/ validate_if_db_exists
    \/ validate_total_records
    \/ validate_get_records
    \/ validate_sanitized
    \/ print_sanitized_records
    \/ display
    \/ dry_run_exit
    \/ start_replay_get_records
    \/ start_replay_sanitized
    \/ replay_requests
    \/ ask_yes_no
    \/ process_record
    \/ send_request_returns
    \/ send_request_raises

Spec == Init /\ [][Next]_vars

(***************************************************************************)
(* The sanitizer alone, on larger stores.                                  *)
(***************************************************************************)
InitSanitize ==
    /\ store \in Stores(PathShapes, MaxSanRows)
    /\ conf \in [excluded_urls : ExcludedChoices,
                 start_from_id : 1..(MaxSanRows + 1),
                 dry_run : {FALSE},
                 interactive : {FALSE},
                 skip_request_errors : {FALSE}]
    /\ pc = "sanitize"
    /\ arg = <<>>
    /\ Idle
    /\ Unserved

\* one evaluation of the sanitized_records property
sanitize ==
    /\ pc = "sanitize"
    /\ Scanned(FALSE)
    /\ records_to_replay' = sanitized_records(records(store, FALSE),
                                conf.excluded_urls, conf.start_from_id)
    /\ Goto("sanitized")
    /\ UNCHANGED <<store, conf, rendered, request_num, requests, in_flight,
                   n_responses, failures, last_response, reprompts, answers,
                   failed_ids, arg>>
    /\ UNCHANGED pagerVars
    /\ UNCHANGED inspected
    /\ UNCHANGED webVars

NextSanitize == sanitize

SpecSanitize == InitSanitize /\ [][NextSanitize]_vars

(***************************************************************************)
(* handle_response alone, on every status code of a range.                 *)
(***************************************************************************)
InitResponse ==
    /\ store = <<>>
    /\ conf = [excluded_urls |-> {},
               start_from_id |-> 1,
               dry_run |-> FALSE,
               interactive |-> FALSE,
               skip_request_errors |-> FALSE]
    /\ pc = "handle_response"
    /\ arg \in ResponseCodes
    /\ Idle
    /\ Unserved

\* one call of handle_response on a response with status code arg
classify ==
    /\ pc = "handle_response"
    /\ last_response' = handle_response(arg)
    /\ Goto("handled")
    /\ UNCHANGED <<store, conf, sqlite_failed, scans, rendered, records_to_replay,
                   request_num, requests, in_flight, n_responses, failures,
                   reprompts, answers, failed_ids, arg>>
    /\ UNCHANGED pagerVars
    /\ UNCHANGED inspected
    /\ UNCHANGED webVars

NextResponse == classify

SpecResponse == InitResponse /\ [][NextResponse]_vars


(***************************************************************************)
(* truncate_text and the records setter of PrettyTableWrapper, alone.      *)
(***************************************************************************)
MAX_CELL_LENGTH == 1500

\* a str is the sequence of its characters
Alphabet == <<"a", "b", "c", "d", "e", "f", "g">>

\* the text of n characters that begins with the character number first
Text(n, first) == [i \in 1..n |-> Alphabet[((i + first) % Len(Alphabet)) + 1]]

Ellipsis == <<".", ".", ".">>

\* s[:k] of Python, k may be negative or past the end
PySliceTo(s, k) ==
    SubSeq(s, 1, IF k < 0 THEN Max(Len(s) + k, 0) ELSE Min(k, Len(s)))

\* a truncation that cuts at max_length and then adds the dots
truncate_text_late(text, max_length) ==
    IF Len(text) > max_length
    THEN PySliceTo(text, max_length) \o Ellipsis
    ELSE text

\* truncate_text
truncate_text(text, max_length) ==
    IF Len(text) > max_length
    THEN PySliceTo(text, max_length - 3) \o Ellipsis
    ELSE text

InitTruncate ==
    /\ store = <<>>
    /\ conf = [excluded_urls |-> {},
               start_from_id |-> 1,
               dry_run |-> FALSE,
               interactive |-> FALSE,
               skip_request_errors |-> FALSE]
    /\ pc = "truncate_text"
    /\ arg \in { Text(n, first) : n \in 0..MaxTextLen, first \in {0, 3} }
    /\ Idle
    /\ Unserved

\* one call of truncate_text(arg, max_length=MAX_CELL_LENGTH), as the
\* records setter calls it for a cell
truncate ==
    /\ pc = "truncate_text"
    /\ rendered' = truncate_text(arg, MAX_CELL_LENGTH)
    /\ Goto("truncated")
    /\ UNCHANGED <<store, conf, sqlite_failed, scans>>
    /\ UNCHANGED runVars
    /\ UNCHANGED pagerVars
    /\ UNCHANGED inspected
    /\ UNCHANGED webVars

NextTruncate == truncate

SpecTruncate == InitTruncate /\ [][NextTruncate]_vars

\* bytes that bytes.decode() rejects
NotUtf8 == <<"0x89">>

\* the body cell of a row as the records setter gets it: bytes, written as
\* the text they decode to when they are UTF-8
CellBytes == {NotUtf8, Text(2, 0), Text(MAX_CELL_LENGTH, 0),
              Text(MAX_CELL_LENGTH + 1, 3)}

\* rows as the presenter receives them: any stored ids, in any order, the
\* same row more than once
TableRecords ==
    UNION { [1..k -> [id : {3, 7},
                      request_method : {"POST"},
                      request_path : {"/api/x"},
                      request_data : CellBytes]] : k \in 0..MaxTableRows }

\* a setter that keeps the id column of the database
add_rows_db_id(rows) ==
    [i \in 1..Len(rows) |->
        [id |-> rows[i].id,
         request_method |-> rows[i].request_method,
         request_path |-> rows[i].request_path,
         request_data |-> truncate_text(rows[i].request_data, MAX_CELL_LENGTH)]]

\* the loop of the records setter over rows all of whose cells decode: the
\* ordinal, then the cells after the first, each through
\* truncate_text (the methods and paths of the model are short, and
\* truncate_text returns them as they are)
add_rows(rows) ==
    [i \in 1..Len(rows) |->
        [id |-> i,
         request_method |-> rows[i].request_method,
         request_path |-> rows[i].request_path,
         request_data |-> truncate_text(rows[i].request_data, MAX_CELL_LENGTH)]]

InitTable ==
    /\ store = <<>>
    /\ conf = [excluded_urls |-> {},
               start_from_id |-> 1,
               dry_run |-> FALSE,
               interactive |-> FALSE,
               skip_request_errors |-> FALSE]
    /\ pc = "records_setter"
    /\ arg \in TableRecords
    /\ Idle
    /\ Unserved

\* pretty_table.records = arg
set_records ==
    /\ pc = "records_setter"
    /\ IF \E i \in 1..Len(arg) : arg[i].request_data = NotUtf8
       THEN Uncaught("UnicodeDecodeError") /\ UNCHANGED rendered
       ELSE rendered' = add_rows(arg) /\ Goto("table")
    /\ UNCHANGED <<store, conf, sqlite_failed, scans>>
    /\ UNCHANGED runVars
    /\ UNCHANGED pagerVars
    /\ UNCHANGED inspected
    /\ UNCHANGED webVars

NextTable == set_records

SpecTable == InitTable /\ [][NextTable]_vars


(***************************************************************************)
(* PyLess alone: any content, any terminal height.                         *)
(***************************************************************************)
InitPager ==
    /\ store = <<>>
    /\ conf = [excluded_urls |-> {},
               start_from_id |-> 1,
               dry_run |-> TRUE,
               interactive |-> TRUE,
               skip_request_errors |-> FALSE]
    /\ pc = "less"
    /\ arg \in [rows : 0..MaxPagerRows, lines : 0..MaxPagerLines]
    /\ Idle
    /\ Unserved

\* PyLess(content).display() up to the first test of the loop, on a
\* terminal of arg.rows rows and a content of arg.lines lines
less ==
    /\ pc = "less"
    /\ page_size' = arg.rows - 1
    /\ current_line' = 0
    /\ total_lines' = arg.lines
    /\ Goto(IF 0 < arg.lines THEN "pager" ELSE "printed")
    /\ UNCHANGED <<store, conf, sqlite_failed, scans, rendered>>
    /\ UNCHANGED runVars
    /\ UNCHANGED inspected
    /\ UNCHANGED webVars

NextPager ==
    \/ less
    \/ display

SpecPager == InitPager /\ [][NextPager]_vars


(***************************************************************************)
(* request_logger: DjangoRequestsHistoryMiddleware.                        *)
(***************************************************************************)
cliVars == <<conf, pc, exit_code, exit_message, raised, sqlite_failed, scans,
             records_to_replay, request_num, requests, in_flight, n_responses,
             failures, last_response, reprompts, answers, failed_ids, arg,
             rendered, inspected, current_line, total_lines, page_size>>

\* a body that is not UTF-8, and two that are
Bodies == {"a", "b", "0x89"}

ContentTypes ==
    {"application/json", "application/x-www-form-urlencoded",
     "multipart/form-data; boundary=x", "text/plain"}

\* request.GET.get('save'): <<>> is None
SaveParams == {<<>>, <<"0">>, <<"1">>}

\* the requests a client sends
WebRequests ==
    [method : {"GET", "POST", "PUT"},
     path_info : {"/queue/", "/health/"},
     content_type : ContentTypes,
     body : Bodies,
     save : SaveParams]

\* the settings a project may have given
SettingsChoices ==
    { [DefaultSettings EXCEPT !.DJANGO_REQUESTS_HISTORY_ENABLE = enable,
                              !.DJANGO_REQUESTS_HISTORY_EXCLUDING_URL_NAMES = names] :
        enable \in BOOLEAN, names \in {{}, {"health"}} }

\* rest_framework.reverse.reverse of the URL names of the project
reverse(url_name) == "/" \o url_name \o "/"

\* the module constant built from the settings when the module is loaded
DJANGO_REQUESTS_HISTORY_EXCLUDING_URL_NAMES ==
    { reverse(url) : url \in settings.DJANGO_REQUESTS_HISTORY_EXCLUDING_URL_NAMES }

\* prettify_dict of a decoded body: json.dumps(..., indent=4, sort_keys=True)
\* of what json.loads made of it, or of the text itself
prettify_dict(possible_dict) == "prettified " \o possible_dict

\* content_type.startswith('multipart/form-data')
IsMultipart(content_type) ==
    content_type \in {"multipart/form-data", "multipart/form-data; boundary=x"}

\* request.body once request.POST has been read: the stream of a multipart
\* POST has been consumed by the parser and body raises RawPostDataException;
\* for every other method POST is empty and nothing was read
BodyAfterPostRaises(request) == request.method = "POST"

\* get_request_data_based_on_content_type: request_data_binary, or the
\* exception raised
get_request_data_based_on_content_type(request, content_type) ==
    IF content_type = "application/json"
    THEN [raises |-> FALSE,
          binary |-> IF request.body # "0x89"
                     THEN prettify_dict(request.body)
                     ELSE request.body]
    ELSE IF content_type = "application/x-www-form-urlencoded"
    THEN [raises |-> FALSE, binary |-> "None"]
    ELSE IF IsMultipart(content_type)
    THEN [raises |-> BodyAfterPostRaises(request), binary |-> request.body]
    ELSE [raises |-> FALSE, binary |-> request.body]

\* rest_framework.status.is_success
is_success(code) == 200 <= code /\ code <= 299

\* __is_request_savable
is_request_savable(request, response) ==
    /\ request.method \in settings.DJANGO_REQUESTS_HISTORY_SAVABLE_REQUEST_METHODS
    /\ is_success(response.status_code)
    /\ settings.DJANGO_REQUESTS_HISTORY_ENABLE
    /\ request.save # <<"0">>
    /\ request.path_info \notin DJANGO_REQUESTS_HISTORY_EXCLUDING_URL_NAMES

\* a thread enters __call__(request)
Call(request) == [NoCall EXCEPT !.pc = "call", !.request = <<request>>]

\* thread t goes on at label
Step(t, label) == threads' = [threads EXCEPT ![t].pc = label]

\* an exception leaves __call__: the handler of the framework answers
Raise(t, exception) ==
    threads' = [threads EXCEPT ![t].pc = "raised", ![t].returned = <<exception>>]

\* __call__: self.request = request
assign_request(t) ==
    /\ threads[t].pc = "call"
    /\ middleware' = [middleware EXCEPT !.request = threads[t].request]
    /\ Step(t, "store_request_info")
    /\ UNCHANGED <<store, settings, command_queue, served>>
    /\ UNCHANGED cliVars

\* __store_request_info: everything is read from self.request
store_request_info(t) ==
    /\ threads[t].pc = "store_request_info"
    /\ LET request == middleware.request[1]
           data == get_request_data_based_on_content_type(request,
                                                          request.content_type)
       IN  IF data.raises
           THEN /\ Raise(t, "RawPostDataException")
                /\ UNCHANGED middleware
           ELSE /\ middleware' =
                       [middleware EXCEPT !.request_response_info =
                           [request_method |-> request.method,
                            request_path |-> request.path_info,
                            request_data_binary |-> data.binary,
                            request_content_type |-> request.content_type,
                            response_status_code |-> 0]]
                /\ Step(t, "get_response")
    /\ UNCHANGED <<store, settings, command_queue, served>>
    /\ UNCHANGED cliVars

\* self.response = self.get_response(request): the view is called with the
\* argument of __call__ and answers with some status
get_response(t) ==
    /\ threads[t].pc = "get_response"
    /\ \E status_code \in StatusCodes :
        LET response == [of |-> t, status_code |-> status_code]
        IN  /\ middleware' = [middleware EXCEPT !.response = <<response>>]
            /\ threads' = [threads EXCEPT
                              ![t].pc = "store_response_info",
                              ![t].view_calls = @ + 1,
                              ![t].view_response = <<response>>]
    /\ UNCHANGED <<store, settings, command_queue, served>>
    /\ UNCHANGED cliVars

\* __store_response_info: the status of self.response is written into
\* self.request_response_info
store_response_info(t) ==
    /\ threads[t].pc = "store_response_info"
    /\ middleware' =
           [middleware EXCEPT !.request_response_info.response_status_code =
                                  middleware.response[1].status_code]
    /\ Step(t, "is_request_savable")
    /\ UNCHANGED <<store, settings, command_queue, served>>
    /\ UNCHANGED cliVars

\* if self.__is_request_savable()
test_request_savable(t) ==
    /\ threads[t].pc = "is_request_savable"
    /\ Step(t, IF is_request_savable(middleware.request[1], middleware.response[1])
               THEN "save_config_to_db"
               ELSE "return")
    /\ UNCHANGED <<store, settings, middleware, command_queue, served>>
    /\ UNCHANGED cliVars

\* __save_config_to_db: objects.create from self.request_response_info. The
\* column request_data_binary is not nullable: None is an IntegrityError.
\* The field by is not a column: it names the thread that made the row.
save_config_to_db(t) ==
    /\ threads[t].pc = "save_config_to_db"
    /\ LET info == middleware.request_response_info
       IN  IF info.request_data_binary = "None"
           THEN /\ Raise(t, "IntegrityError")
                /\ UNCHANGED store
           ELSE /\ store' = Append(store,
                                [id |-> Len(store) + 1,
                                 request_method |-> info.request_method,
                                 request_path |-> info.request_path,
                                 request_data |-> info.request_data_binary,
                                 response_code |-> info.response_status_code,
                                 by |-> t])
                /\ Step(t, "return")
    /\ UNCHANGED <<settings, middleware, command_queue, served>>
    /\ UNCHANGED cliVars

\* return self.response
return_response(t) ==
    /\ threads[t].pc = "return"
    /\ threads' = [threads EXCEPT ![t].pc = "done",
                                  ![t].returned = middleware.response]
    /\ UNCHANGED <<store, settings, middleware, command_queue, served>>
    /\ UNCHANGED cliVars

\* the script is not running
NoScript ==
    /\ conf = [excluded_urls |-> {},
               start_from_id |-> 1,
               dry_run |-> FALSE,
               interactive |-> FALSE,
               skip_request_errors |-> FALSE]
    /\ pc = "exited"
    /\ arg = <<>>
    /\ Idle

\* one request at a time: an empty history table, one thread, any request
InitMiddleware ==
    /\ store = <<>>
    /\ NoScript
    /\ settings \in SettingsChoices
    /\ middleware = MiddlewareInit
    /\ \E request \in WebRequests :
           threads = [t \in Threads |-> IF t = 1 THEN Call(request) ELSE NoCall]
    /\ command_queue = <<>>
    /\ served = <<>>

\* __call__ in the one thread
NextMiddleware ==
    \/ assign_request(1)
    \/ store_request_info(1)
    \/ get_response(1)
    \/ store_response_info(1)
    \/ test_request_savable(1)
    \/ save_config_to_db(1)
    \/ return_response(1)

SpecMiddleware == InitMiddleware /\ [][NextMiddleware]_vars


(***************************************************************************)
(* Two threads in the one middleware instance: the server builds the       *)
(* middleware once and calls it from every worker thread.                  *)
(***************************************************************************)
\* requests that differ in method, path and body
ConcurrentRequests ==
    { r \in WebRequests :
        /\ r.content_type = "application/json"
        /\ r.save = <<>>
        /\ <<r.method, r.path_info, r.body>> \in
               { <<"POST", "/queue/", "a">>,
                 <<"PUT", "/health/", "b">>,
                 <<"GET", "/queue/", "b">> } }

InitConcurrent ==
    /\ store = <<>>
    /\ NoScript
    /\ settings = DefaultSettings
    /\ middleware = MiddlewareInit
    /\ threads \in [Threads -> { Call(request) : request \in ConcurrentRequests }]
    /\ command_queue = <<>>
    /\ served = <<>>

\* a statement of __call__ in either thread
NextConcurrent ==
    \E t \in Threads :
        \/ assign_request(t)
        \/ store_request_info(t)
        \/ get_response(t)
        \/ store_response_info(t)
        \/ test_request_savable(t)
        \/ save_config_to_db(t)
        \/ return_response(t)

SpecConcurrent == InitConcurrent /\ [][NextConcurrent]_vars


(***************************************************************************)
(* command_queue_simulation: the views on SIMULATED_STATE.                 *)
(***************************************************************************)
MaxServed == 5

\* request.data.get("command"): <<>> is None (no such key)
Commands == {<<>>, <<"">>, <<"restart wifi">>, <<"enable dhcp">>}

\* a queue that takes the new command at its head
enqueue_at_head(queue, cmd) == <<cmd>> \o queue

\* SIMULATED_STATE["command_queue"].append(cmd)
enqueue(queue, cmd) == Append(queue, cmd)

\* a call of a view: what the request gave it, the status it answered and
\* the list in the body of the answer (the value of "queue"; <<>> when the
\* body holds no list)
Served(view, data, status_code, body) ==
    [view |-> view, data |-> data, status_code |-> status_code,
     body |-> body]

InitQueue ==
    /\ store = <<>>
    /\ NoScript
    /\ Unserved

\* POST queue/
enqueue_command ==
    /\ Len(served) < MaxServed
    /\ \E command \in Commands :
        IF command = <<>> \/ command = <<"">>
        THEN /\ served' = Append(served,
                              Served("enqueue_command", command, 400, <<>>))
             /\ UNCHANGED command_queue
        ELSE /\ command_queue' = enqueue(command_queue, command[1])
             /\ served' = Append(served,
                              Served("enqueue_command", command, 200,
                                     command_queue'))
    /\ UNCHANGED <<store, settings, middleware, threads>>
    /\ UNCHANGED cliVars

\* DELETE queue/clear/
clear_queue ==
    /\ Len(served) < MaxServed
    /\ command_queue' = <<>>
    /\ served' = Append(served, Served("clear_queue", <<>>, 200, <<>>))
    /\ UNCHANGED <<store, settings, middleware, threads>>
    /\ UNCHANGED cliVars

\* GET queue/view/
get_queue ==
    /\ Len(served) < MaxServed
    /\ served' = Append(served, Served("get_queue", <<>>, 200, command_queue))
    /\ UNCHANGED <<store, settings, middleware, threads, command_queue>>
    /\ UNCHANGED cliVars

NextQueue ==
    \/ enqueue_command
    \/ clear_queue
    \/ get_queue

SpecQueue == InitQueue /\ [][NextQueue]_vars


(***************************************************************************)
(* request_logger: the views on the history table.                         *)
(***************************************************************************)
MaxHistoryId == 3
MaxListed == 2

\* history tables: ids grow with the rows and rows may have been deleted
HistoryTables ==
    UNION { { [i \in 1..k |-> Row(f[i], [request_path |-> "/api/x",
                                        request_data |-> "object"])] :
                f \in { g \in [1..k -> 1..MaxHistoryId] :
                          \A i \in 1..k, j \in 1..k : i < j => g[i] < g[j] } } :
            k \in 0..MaxHistoryId }

\* request.query_params.get('id__gte', None): <<>> is None
IdGteParams ==
    {<<>>, <<"">>, <<"0">>, <<"1">>, <<"2">>, <<" 2 ">>, <<"3">>, <<"4">>,
     <<"-1">>, <<"2.0">>, <<"abc">>}

\* int(text): the number, or ValueError
int(text) ==
    CASE text = "0" -> [raises |-> FALSE, value |-> 0]
      [] text = "1" -> [raises |-> FALSE, value |-> 1]
      [] text \in {"2", " 2 "} -> [raises |-> FALSE, value |-> 2]
      [] text = "3" -> [raises |-> FALSE, value |-> 3]
      [] text = "4" -> [raises |-> FALSE, value |-> 4]
      [] text = "-1" -> [raises |-> FALSE, value |-> 0 - 1]
      [] OTHER -> [raises |-> TRUE, value |-> 0]

\* queryset.filter(id__gt=id_gt)
filter_id__gt(rows, id_gt) == SelectSeq(rows, LAMBDA row : row.id > id_gt)

\* queryset.filter(id__gte=id_gt)
filter_id__gte(rows, id_gt) == SelectSeq(rows, LAMBDA row : row.id >= id_gt)

\* order_by('-created'): rows are created in the order of their ids
order_by_created_desc(rows) ==
    [i \in 1..Len(rows) |-> rows[Len(rows) + 1 - i]]

InitHistory ==
    /\ store \in HistoryTables
    /\ NoScript
    /\ Unserved

\* GET requests-history/: DjangoRequestsHistoryViewSet.list on get_queryset
list ==
    /\ Len(served) < MaxListed
    /\ \E id_gt_query_param \in IdGteParams :
        IF id_gt_query_param \notin {<<>>, <<"">>}
        THEN LET id_gt == int(id_gt_query_param[1])
             IN  IF id_gt.raises
                 THEN served' = Append(served,
                                    Served("list", id_gt_query_param, 400, <<>>))
                 ELSE served' = Append(served,
                                    Served("list", id_gt_query_param, 200,
                                           order_by_created_desc(
                                               filter_id__gte(store, id_gt.value))))
        ELSE served' = Append(served, Served("list", id_gt_query_param, 200,
                                             order_by_created_desc(store)))
    /\ UNCHANGED <<store, settings, middleware, threads, command_queue>>
    /\ UNCHANGED cliVars

\* DELETE requests-history/clear/
delete_request_history ==
    /\ Len(served) < MaxListed
    /\ store' = <<>>
    /\ served' = Append(served,
                        Served("delete_request_history", <<>>, 200, <<>>))
    /\ UNCHANGED <<settings, middleware, threads, command_queue>>
    /\ UNCHANGED cliVars

NextHistory ==
    \/ list
    \/ delete_request_history

SpecHistory == InitHistory /\ [][NextHistory]_vars


(***************************************************************************)
(* The script on a history table the web application is still writing to.  *)
(***************************************************************************)
InitShared ==
    /\ store \in Stores(PathShapes, MaxRows)
    /\ conf \in [excluded_urls : ExcludedChoices,
                 start_from_id : 1..(MaxRows + 1),
                 dry_run : BOOLEAN,
                 interactive : BOOLEAN,
                 skip_request_errors : BOOLEAN]
    /\ pc = "start"
    /\ arg = <<>>
    /\ Idle
    /\ Unserved

\* the middleware of the running application saves a request: a row is
\* added to the table while the script has a scan of the table ahead of it
history_saved ==
    /\ pc \in {"start", "construct", "validate", "validate_records",
               "validate_sanitized", "dry_run", "replay", "replay_sanitized"}
    /\ Len(store) < MaxRows
    /\ \E shape \in PathShapes :
           store' = Append(store, Row(Len(store) + 1, shape))
    /\ UNCHANGED cliVars
    /\ UNCHANGED webVars

NextShared ==
    \/ Next
    \/ history_saved

SpecShared == InitShared /\ [][NextShared]_vars


(***************************************************************************)
(* The non-interactive run, each step of which is eventually taken: the    *)
(* interpreter runs the script on, no step waits for a key or a line, and  *)
(* requests.request returns or raises within its timeout.                  *)
(***************************************************************************)
InitBatch ==
    /\ store \in Stores(RecordShapes, MaxRows)
    /\ conf \in [excluded_urls : ExcludedChoices,
                 start_from_id : (-1)..(MaxRows + 1),
                 dry_run : BOOLEAN,
                 interactive : {FALSE},
                 skip_request_errors : BOOLEAN]
    /\ pc = "start"
    /\ arg = <<>>
    /\ Idle
    /\ Unserved

NextBatch ==
    \/ from_parse_args
    \/ validate_if_db_exists
    \/ validate_total_records
    \/ validate_get_records
    \/ validate_sanitized
    \/ print_sanitized_records
    \/ dry_run_exit
    \/ start_replay_get_records
    \/ start_replay_sanitized
    \/ replay_requests
    \/ process_record
    \/ send_request_returns
    \/ send_request_raises

SpecBatch == InitBatch /\ [][NextBatch]_vars /\ WF_vars(NextBatch)


(***************************************************************************)
(* PyLess under a user who presses the page key and no other: getch        *)
(* returns a space each time it is called, on a terminal of two rows or    *)
(* more (page_size >= 1).                                                  *)
(***************************************************************************)
InitSpace ==
    /\ store = <<>>
    /\ conf = [excluded_urls |-> {},
               start_from_id |-> 1,
               dry_run |-> TRUE,
               interactive |-> TRUE,
               skip_request_errors |-> FALSE]
    /\ pc = "less"
    /\ arg \in [rows : 2..(MaxPagerRows + 1), lines : 0..(2 * MaxPagerLines)]
    /\ Idle
    /\ Unserved

\* getch returns ' '
display_space == display_key(" ")

NextSpace ==
    \/ less
    \/ display_space

SpecSpace == InitSpace /\ [][NextSpace]_vars /\ WF_vars(NextSpace)

(***************************************************************************)
(* Properties.                                                             *)
(***************************************************************************)
\* the stored records whose path is not excluded, in store order
Filtered == SelectSeq(store, LAMBDA r : r.request_path \notin conf.excluded_urls)

\* a non-interactive replay that went through the whole list
ReplayedToTheEnd ==
    /\ pc = "exited"
    /\ ~conf.dry_run
    /\ request_num >= 1
    /\ request_num > Len(records_to_replay)

\* C1: non-interactive, start offset 1, every response 2xx: exactly one
\* request per non-excluded stored record, to base_url + request_path, and
\* exit code 0.
C1_OneRequestPerRecord ==
    (/\ ReplayedToTheEnd
     /\ ~conf.interactive
     /\ conf.start_from_id = 1
     /\ ~sqlite_failed
     /\ raised = "none"
     /\ failures = 0)
    => /\ exit_code = 0
       /\ Len(requests) = Len(Filtered)
       /\ \A i \in 1..Len(Filtered) :
            requests[i].url = base_url \o Filtered[i].request_path

\* C2: sanitized_records returns F ++ F[N-1..]: its length is
\* |F| + max(0, |F| - N + 1), and 5 filtered records with N = 3 give 8 entries.
C2_SanitizedIsFilteredPlusTail ==
    pc = "sanitized" =>
        LET F == Filtered
            N == conf.start_from_id
        IN  /\ records_to_replay = F \o SubSeq(F, N, Len(F))
            /\ Len(records_to_replay) = Len(F) + Max(0, Len(F) - N + 1)
            /\ (Len(F) = 5 /\ N = 3) => Len(records_to_replay) = 8

C2_Witness ==
    /\ pc = "sanitized"
    /\ Len(store) > Len(Filtered)
    /\ Len(Filtered) = 5
    /\ conf.start_from_id = 3
    /\ Len(records_to_replay) = 8

\* C3: the sanitized sequence contains only records whose 1-based position
\* in the exclusion-filtered list is >= N.
C3_OnlyPositionsFromOffset ==
    pc = "sanitized" =>
        \A i \in 1..Len(records_to_replay) :
            \E j \in conf.start_from_id..Len(Filtered) :
                Filtered[j] = records_to_replay[i]

\* C4: no entry of the sanitized sequence, and no request issued, has a
\* path of the exclusion list.
C4_NoExcludedPath ==
    /\ \A i \in 1..Len(records_to_replay) :
          records_to_replay[i].request_path \notin conf.excluded_urls
    /\ \A i \in 1..Len(rendered) :
          rendered[i].request_path \notin conf.excluded_urls
    /\ \A i \in 1..Len(requests) : \A path \in conf.excluded_urls :
          requests[i].url # base_url \o path

C4_Witness ==
    /\ \E i \in 1..Len(store) : store[i].request_path \in conf.excluded_urls
    /\ Len(Filtered) >= 1
    /\ conf.start_from_id = 2
    /\ Len(requests) = Len(records_to_replay)
    /\ Len(requests) >= 1

\* C5: the sanitized sequence preserves the store's row order: an entry
\* never comes before an entry of an earlier row.
C5_StoreOrderPreserved ==
    pc = "sanitized" =>
        \A i, j \in 1..Len(records_to_replay) :
            i < j => records_to_replay[i].id <= records_to_replay[j].id

\* C6: non-interactive, skip_request_errors off: the first response outside
\* 200..299 ends the process with exit code 1 and no later entry is requested.
C6_AbortOnFirstFailure ==
    (~conf.interactive /\ ~conf.skip_request_errors /\ failures > 0)
    => /\ pc = "exited"
       /\ exit_code = 1
       /\ raised = "none"
       /\ failures = 1
       /\ last_response[1] = FALSE
       /\ ~in_flight
       /\ Len(requests) = n_responses
       /\ requests[Len(requests)].num = request_num
       /\ \A i \in 1..Len(requests) : requests[i].num <= request_num

C6_Witness ==
    /\ ~conf.interactive
    /\ ~conf.skip_request_errors
    /\ failures = 1
    /\ n_responses = 2
    /\ request_num < Len(records_to_replay)
    /\ pc = "exited"
    /\ exit_code = 1

\* C7: non-interactive, skip_request_errors on, no transport exception: a
\* request is issued for every entry of the sanitized sequence and the
\* process finishes with exit code 0.
C7_SkipErrorsCompletes ==
    (/\ pc = "exited"
     /\ ~conf.dry_run
     /\ ~conf.interactive
     /\ conf.skip_request_errors
     /\ request_num >= 1
     /\ failures > 0
     /\ ~sqlite_failed
     /\ raised # "RequestException")
    => /\ exit_code = 0
       /\ Len(requests) = Len(records_to_replay)

\* C8: a transport failure ends the run with a non-zero exit in every mode;
\* the failed request is the last one issued.
C8_TransportFailureIsFatal ==
    raised = "RequestException"
    => /\ pc = "exited"
       /\ exit_code # 0
       /\ ~in_flight
       /\ Len(requests) = n_responses
       /\ Len(requests) >= 1
       /\ requests[Len(requests)].num = request_num
       /\ \A i \in 1..(Len(requests) - 1) : requests[i].num < request_num

C8_Witness ==
    /\ raised = "RequestException"
    /\ conf.interactive
    /\ conf.skip_request_errors
    /\ n_responses >= 2
    /\ request_num < Len(records_to_replay)
    /\ pc = "exited"

\* the cells of the non-excluded records all decode
Renderable == ~RenderRaises(Filtered)

C10_OneAtATimeInOrder ==
    /\ \A i \in 1..Len(requests) :
          /\ requests[i].num \in 1..Len(records_to_replay)
          /\ requests[i].id = records_to_replay[requests[i].num].id
          /\ requests[i].url = base_url \o records_to_replay[requests[i].num].request_path
    /\ \A i, j \in 1..Len(requests) :
          i < j => requests[i].num < requests[j].num
    /\ Len(requests) = n_responses + (IF in_flight THEN 1 ELSE 0)
    /\ pc = "process" => ~in_flight
    /\ in_flight => requests[Len(requests)].num = request_num

C10_Witness ==
    /\ in_flight
    /\ Len(requests) >= 3
    /\ requests[1].id # requests[2].id
    /\ failures >= 1

\* C11: a record whose request failed (non-2xx response, or an exception
\* of the transport such as a timeout) is not requested again in the same
\* run: no request is in flight for a record that has failed before.
C11_FailedRecordNotReissued ==
    in_flight => requests[Len(requests)].id \notin failed_ids

\* the requests issued for entry num of the replayed list
RequestsOf(num) == { i \in 1..Len(requests) : requests[i].num = num }

\* C12: in interactive mode every entry is answered at most once, in list
\* order; a request is issued for an entry only when yes/y has been
\* answered to that entry; an entry answered no/n/empty has no request;
\* once q is answered the process has exited with code 0, no request is in
\* flight and none was issued for the entry q was answered to or any later
\* one (so n then q over two entries leaves zero requests).
C12_RequestOnlyAfterYes ==
    conf.interactive =>
        /\ \A k \in 1..Len(answers) : answers[k].num = k
        /\ \A i \in 1..Len(requests) :
              /\ requests[i].num <= Len(answers)
              /\ answers[requests[i].num].answer = "EXECUTE"
        /\ \A k \in 1..Len(answers) :
              /\ answers[k].answer = "SKIP" => RequestsOf(k) = {}
              /\ answers[k].answer = "QUIT" =>
                    /\ k = Len(answers)
                    /\ pc = "exited"
                    /\ exit_code = 0
                    /\ raised = "none"
                    /\ ~in_flight
                    /\ \A i \in 1..Len(requests) : requests[i].num < k
        /\ (/\ Len(answers) = 2
            /\ answers[1].answer = "SKIP"
            /\ answers[2].answer = "QUIT") => requests = <<>>

\* yes to the first entry, no to the second, q at the third
C12_Witness ==
    /\ conf.interactive
    /\ Len(answers) = 3
    /\ answers[1].answer = "EXECUTE"
    /\ answers[2].answer = "SKIP"
    /\ answers[3].answer = "QUIT"
    /\ Len(requests) = 1
    /\ pc = "exited"

\* the answer a step of ask_yes_no has added to the log, "INVALID" if none
Answer ==
    IF Len(answers') = Len(answers) + 1
    THEN answers'[Len(answers')].answer
    ELSE "INVALID"

\* C13: every line read by ask_yes_no is classified whatever the case of
\* its letters: yes/y proceeds to execute the entry, no/n/empty skips it,
\* q ends the process with exit code 0, and any other line prompts again
\* for the same entry, however many came before, without a request, a skip
\* or an exit.
C13_AskYesNoClassifies ==
    [][pc = "ask" =>
        /\ requests' = requests
        /\ CASE Answer = "EXECUTE" ->
                    pc' = "process" /\ request_num' = request_num
             [] Answer = "SKIP" ->
                    pc' = "loop" /\ request_num' = request_num + 1
             [] Answer = "QUIT" ->
                    pc' = "exited" /\ exit_code' = 0 /\ raised' = "none"
             [] OTHER ->
                    /\ answers' = answers
                    /\ pc' = "ask"
                    /\ request_num' = request_num
                    /\ reprompts' = reprompts + 1
                    /\ UNCHANGED exitVars]_vars

\* as many invalid lines as the model follows, and then a yes
C13_Witness ==
    /\ reprompts = MaxReprompts
    /\ pc = "process"
    /\ answers # <<>>
    /\ answers[Len(answers)].answer = "EXECUTE"

\* interactive mode, and the last request issued has been answered by the
\* server
ExecutedInteractively ==
    /\ conf.interactive
    /\ requests # <<>>
    /\ ~in_flight
    /\ raised # "RequestException"

\* C14: in interactive mode a response never ends the run, whatever its
\* status code and whatever skip_request_errors is: once a request has been
\* answered the loop is past its entry, and when that entry was not the
\* last, the next entry is at its prompt or has been answered.
C14_NextEntryPrompted ==
    ExecutedInteractively =>
        /\ request_num > requests[Len(requests)].num
        /\ (/\ request_num = requests[Len(requests)].num + 1
            /\ request_num <= Len(records_to_replay)
            /\ pc # "loop")
           => \/ pc = "ask"
              \/ Len(answers) >= request_num

\* stored bodies that are not a parseable JSON document
NotParseable == {"invalid", "binary"}

\* the entry the loop is at has a body that is not a parseable JSON
\* document, and the entry is to be executed
AtUnparseableEntry ==
    /\ request_num \in 1..Len(records_to_replay)
    /\ records_to_replay[request_num].request_data \in NotParseable
    /\ \/ ~conf.interactive
       \/ /\ Len(answers) >= request_num
          /\ answers[request_num].answer = "EXECUTE"

\* C15: an entry whose stored body is not a parseable JSON document is
\* requested with no body and a stored JSON object is sent as the parsed
\* dict; the process never ends at such an entry without its request, and
\* ends there only through the abort on a failed response or an exception
\* of the transport.
C15_UnparseableBodySentEmpty ==
    /\ \A i \in 1..Len(requests) :
          LET data == records_to_replay[requests[i].num].request_data
          IN  /\ data \in NotParseable => requests[i].json = "None"
              /\ data = "object" => requests[i].json = "dict"
    /\ (pc = "exited" /\ AtUnparseableEntry) =>
          /\ RequestsOf(request_num) # {}
          /\ \/ raised = "RequestException"
             \/ exit_message = "Exiting after receiving error..."

\* C16: handle_response reports success exactly for the status codes from
\* 200 to 299, both included (200, 204 and 299 succeed; 199, 300, 404 and
\* 500 fail), and returns the status code it was given next to the flag.
C16_SuccessIffTwoHundreds ==
    pc = "handled" =>
        /\ Len(last_response) = 2
        /\ last_response[2] = arg
        /\ last_response[1] \in BOOLEAN
        /\ last_response[1] <=> (arg >= 200 /\ arg < 300)
        /\ arg \in {200, 204, 299} => last_response[1]
        /\ arg \in {199, 300, 404, 500} => ~last_response[1]

\* the last status code that succeeds has been classified
C16_Witness ==
    /\ pc = "handled"
    /\ arg = 299
    /\ last_response = <<TRUE, 299>>

\* C17: with a start offset of zero or less the run goes nowhere but to an
\* exit with a non-zero code, caused by the ValueError of validate: the
\* existence of the store is never tested, no query is executed and no
\* request is issued.
C17_BadOffsetRejectedFirst ==
    conf.start_from_id <= 0 =>
        /\ pc \in {"start", "exited"}
        /\ pc = "exited" => (exit_code # 0 /\ raised = "ValueError")
        /\ exit_message = ""
        /\ scans = 0
        /\ ~sqlite_failed
        /\ requests = <<>>
        /\ ~in_flight

\* a negative offset has been rejected, with records in the store
C17_Witness ==
    /\ conf.start_from_id < 0
    /\ store # <<>>
    /\ pc = "exited"
    /\ exit_code = 1
    /\ raised = "ValueError"

\* C18: a run that found no store file has exited with a non-zero code
\* before any query and any request; a query that raised sqlite3.Error
\* raised nothing in the run, and a run in which a query failed issues no
\* request and ends with exit code 1.
C18_StoreUnavailable ==
    /\ exit_message = "DB does not exist." =>
          /\ pc = "exited"
          /\ exit_code # 0
          /\ scans = 0
          /\ requests = <<>>
    /\ sqlite_failed =>
          /\ requests = <<>>
          /\ ~in_flight
          /\ pc = "exited" => exit_code = 1

\* what a run prints when it finds the store without any record
NoRecordsMessages == { NoProcessable(Resolve(db_file)) : db_file \in DbFiles }

\* what a run prints when it finds no record to replay
NoProcessableMessages ==
    NoRecordsMessages \cup { NoProcessable(db_file) : db_file \in DbFiles }

\* the run is past validate, whose queries all succeeded
Validated ==
    /\ conf.start_from_id >= 1
    /\ exit_message # "DB does not exist."
    /\ ~sqlite_failed
    /\ pc \notin {"start", "construct", "validate", "validate_records",
                  "validate_sanitized"}

\* C19: when no stored record survives the filter the run has ended after
\* validate with exit code 1 and the message of an empty list, before any
\* request; and that message tells the two cases apart: a run whose store
\* holds records, none of which survives the filter, does not print what a
\* run on a store without records prints.
C19_EmptyAbortsWithDistinctMessage ==
    (Validated /\ Filtered = <<>>) =>
        /\ pc = "exited"
        /\ exit_code = 1
        /\ requests = <<>>
        /\ exit_message \in NoProcessableMessages
        /\ store # <<>> => exit_message \notin NoRecordsMessages

\* C20: no step of a run (reading, sanitizing, the dry-run preview, the
\* interactive or non-interactive replay, any exit) changes the rows of
\* the record store.
C20_StoreNeverWritten == [][store' = store]_vars

\* a replay that read the store five times, issued requests and ended
C20_Witness ==
    /\ store # <<>>
    /\ scans >= 5
    /\ requests # <<>>
    /\ pc = "exited"

\* C21: in the table the setter has built, row N carries N in its first
\* column and the method, the path and the body text of the Nth record
\* given to the setter (the body cut to the cell length when it is longer),
\* whatever the ids of the records are; the table has a row for every
\* record.
C21_RowsRenumbered ==
    pc = "table" =>
        /\ Len(rendered) = Len(arg)
        /\ \A N \in 1..Len(arg) :
              /\ rendered[N].id = N
              /\ rendered[N].request_method = arg[N].request_method
              /\ rendered[N].request_path = arg[N].request_path
              /\ \/ rendered[N].request_data = arg[N].request_data
                 \/ /\ Len(arg[N].request_data) > 1500
                    /\ SubSeq(rendered[N].request_data, 1, 1497)
                           = SubSeq(arg[N].request_data, 1, 1497)

\* a table of two rows whose records carry the ids 7 and 3, in that order,
\* and different bodies
C21_Witness ==
    /\ pc = "table"
    /\ Len(arg) = 2
    /\ arg[1].id = 7
    /\ arg[2].id = 3
    /\ arg[1].request_data # arg[2].request_data
    /\ rendered[1].id = 1
    /\ rendered[2].id = 2

\* C22: a cell text longer than 1500 characters comes out as its first 1497
\* characters followed by three dots, 1500 characters in all; a text of at
\* most 1500 characters comes out unchanged.
C22_TruncatedTo1500 ==
    pc = "truncated" =>
        IF Len(arg) > 1500
        THEN /\ Len(rendered) = 1500
             /\ \A i \in 1..1497 : rendered[i] = arg[i]
             /\ \A i \in 1498..1500 : rendered[i] = "."
        ELSE rendered = arg

\* a text of 1501 characters has been cut
C22_Witness ==
    /\ pc = "truncated"
    /\ Len(arg) = 1501
    /\ Len(rendered) = 1500
    /\ rendered[1497] = arg[1497]
    /\ rendered[1498] = "."

\* content[a:b] of Python on a content of n lines: the 0-based indices of
\* the lines it holds
PySliceIndices(n, a, b) ==
    LET from == IF a < 0 THEN Max(n + a, 0) ELSE Min(a, n)
        to == IF b < 0 THEN Max(n + b, 0) ELSE Min(b, n)
    IN  from..(to - 1)

\* the lines on the screen in a state of the pager
Screen ==
    PySliceIndices(total_lines, current_line,
                   Min(current_line + page_size, total_lines))

\* what a key does in the state the pager is in
Press(key) == display_turn(key, current_line, page_size, total_lines)

\* C23 as it is written: a screen holds terminal height - 1 lines, and in
\* every state of the pager the space key advances the top line by a full
\* page (to the end of the content when less than a page is left), the
\* Enter key by exactly one line, and q ends paging at once.
C23_PageKeyAlwaysAdvances ==
    pc = "pager" =>
        /\ page_size = arg.rows - 1
        /\ Press(" ").line = Min(current_line + page_size, total_lines)
        /\ Press("\r").line = current_line + 1
        /\ Press("q").leaves

\* C23, amended: the page holds terminal height - 1 lines, and on a terminal
\* of at least one row no screen shows more and every screen but the last
\* shows as many; Enter advances the top line by exactly one line; q and Q end
\* paging at once without moving; space advances the top line by a full
\* page, or to the end of the content (which ends paging) when less than a
\* page is left, except when the top line is the last line of the content:
\* there space changes nothing and the pager stays.
C23_PagerKeys ==
    pc = "pager" =>
        /\ page_size = arg.rows - 1
        /\ arg.rows >= 1 =>
              /\ Cardinality(Screen) <= page_size
              /\ current_line + page_size <= total_lines
                    => Cardinality(Screen) = page_size
        /\ Press("\r").line = current_line + 1
        /\ \A key \in {"q", "Q"} :
              Press(key).leaves /\ Press(key).line = current_line
        /\ IF current_line < total_lines - 1
           THEN Press(" ").line = Min(current_line + page_size, total_lines)
           ELSE Press(" ").line = current_line /\ ~Press(" ").leaves

\* the pager is on the last line of a content of several lines, on a
\* terminal of several rows
C23_Witness ==
    /\ pc = "pager"
    /\ page_size >= 2
    /\ total_lines >= 3
    /\ current_line = total_lines - 1

\* the call of thread t is over: __call__ returned or raised
Over(t) == threads[t].pc \in {"done", "raised"}

\* the five conditions, on the request of thread t and the response its view
\* gave
Savable(t) ==
    /\ threads[t].request[1].method \in
           settings.DJANGO_REQUESTS_HISTORY_SAVABLE_REQUEST_METHODS
    /\ is_success(threads[t].view_response[1].status_code)
    /\ settings.DJANGO_REQUESTS_HISTORY_ENABLE
    /\ threads[t].request[1].save # <<"0">>
    /\ threads[t].request[1].path_info \notin
           DJANGO_REQUESTS_HISTORY_EXCLUDING_URL_NAMES

\* C24: once the middleware is through with a request, the view has been
\* called exactly once, its response is what the middleware returned, and a
\* history record was created if and only if the method is savable, the
\* status is 2xx, history is enabled, save is not '0' and the path is not
\* excluded.
C24_RecordIffSavable ==
    \A t \in Threads :
        Over(t) =>
            /\ threads[t].view_calls = 1
            /\ threads[t].pc = "done"
            /\ threads[t].returned = threads[t].view_response
            /\ (\E i \in 1..Len(store) : store[i].by = t) <=> Savable(t)

\* the history row is the request of thread t and the response its view gave
RecordOf(row, t) ==
    LET request == threads[t].request[1]
    IN  /\ row.request_method = request.method
        /\ row.request_path = request.path_info
        /\ row.request_data =
               get_request_data_based_on_content_type(request,
                                                      request.content_type).binary
        /\ row.response_code = threads[t].view_response[1].status_code

\* C28: with two requests in the middleware at once, every saved history
\* record carries the method, path and body of the request it was created
\* for and the status of that request's own response: nothing of the other
\* request gets into it through self.request, self.response and
\* self.request_response_info.
C28_RecordsNeverMixed ==
    \A i \in 1..Len(store) : RecordOf(store[i], store[i].by)

\* the commands enqueue accepted among the first n calls, since the last
\* clear among them, in the order of the calls
RECURSIVE AcceptedSinceClear(_)
AcceptedSinceClear(n) ==
    IF n = 0 \/ served[n].view = "clear_queue"
    THEN <<>>
    ELSE IF served[n].view = "enqueue_command" /\ served[n].status_code = 200
    THEN Append(AcceptedSinceClear(n - 1), served[n].data[1])
    ELSE AcceptedSinceClear(n - 1)

\* C25: after any sequence of calls, get_queue answers exactly the commands
\* enqueue accepted since the most recent clear, in the order they came; the
\* queue is empty right after a clear; enqueue answers 400 exactly for a
\* missing or empty command, and such a call leaves the queue as it was.
C25_QueueIsAcceptedSinceClear ==
    /\ command_queue = AcceptedSinceClear(Len(served))
    /\ \A n \in 1..Len(served) :
        /\ served[n].view = "get_queue" =>
               /\ served[n].status_code = 200
               /\ served[n].body = AcceptedSinceClear(n - 1)
        /\ served[n].view = "enqueue_command" =>
               /\ served[n].status_code \in {200, 400}
               /\ served[n].status_code = 400 <=>
                      served[n].data \in {<<>>, <<"">>}
               /\ served[n].status_code = 400 =>
                      AcceptedSinceClear(n) = AcceptedSinceClear(n - 1)
    /\ (served # <<>> /\ served[Len(served)].view = "clear_queue") =>
           command_queue = <<>>

\* two commands were accepted after a clear, an empty one was rejected in
\* between, and get_queue has answered the two in their order
C25_Witness ==
    /\ Len(served) = 5
    /\ served[1].view = "clear_queue"
    /\ served[3].view = "enqueue_command" /\ served[3].status_code = 400
    /\ served[5].view = "get_queue"
    /\ served[5].body = <<"restart wifi", "enable dhcp">>

\* the entries of an answer, as a set
Entries(body) == { body[i] : i \in 1..Len(body) }

\* the call served last is a list call
Listed ==
    /\ served # <<>>
    /\ served[Len(served)].view = "list"

\* C26: a list call with id__gte = k (an integer) answers 200 with exactly
\* the stored entries whose id is >= k, each once, and with every stored
\* entry when the parameter is absent; the call leaves the table as it was.
C26_ListReturnsIdGte ==
    [][(Len(served') = Len(served) + 1 /\ served'[Len(served')].view = "list") =>
          LET call == served'[Len(served')]
          IN  /\ store' = store
              /\ call.data = <<>> =>
                     /\ call.status_code = 200
                     /\ Entries(call.body) = Entries(store)
                     /\ Len(call.body) = Len(store)
              /\ \A k \in (0 - 1)..(MaxHistoryId + 1) :
                     (call.data # <<>> /\ call.data # <<"">>
                        /\ ~int(call.data[1]).raises
                        /\ int(call.data[1]).value = k) =>
                         /\ call.status_code = 200
                         /\ Entries(call.body) =
                                { row \in Entries(store) : row.id >= k }
                         /\ Len(call.body) = Cardinality(Entries(call.body))
                         /\ \A i \in 1..Len(call.body) : call.body[i].id >= k
      ]_vars

\* the table holds entries 1, 2 and 3 and id__gte=2 has answered two of them
C26_Witness ==
    /\ Listed
    /\ Len(store) = 3
    /\ served[Len(served)].data = <<"2">>
    /\ Len(served[Len(served)].body) = 2

\* the run has built the list it replays
ReplayListBuilt == request_num >= 1

\* the run has given the list to the table of the dry run
Rendered == pc \in {"pager", "printed"} \/ exit_message = "done."

\* C27: the sanitized list is computed once per run: what validate counted
\* is what the dry run renders and what the replay iterates, whatever
\* another process adds to the table during the run (no query failing).
C27_SanitizedComputedOnce ==
    ~sqlite_failed =>
        /\ ReplayListBuilt => records_to_replay = inspected
        /\ Rendered => rendered = inspected

\* how often the record with this id occurs in the sanitized list
Occurrences(id) ==
    Cardinality({ i \in 1..Len(records_to_replay) : records_to_replay[i].id = id })

\* C29: for every offset N >= 1, also one beyond the filtered list, each
\* stored record whose path is not excluded occurs in the sanitized list
\* once or twice, and twice exactly when its 1-based position in the
\* filtered list is >= N.
C29_OnceOrTwice ==
    pc = "sanitized" =>
        \A j \in 1..Len(Filtered) :
            /\ Occurrences(Filtered[j].id) \in {1, 2}
            /\ Occurrences(Filtered[j].id) = 2 <=> j >= conf.start_from_id

\* four records survive the filter, one does not, and with N = 3 the first
\* two occur once and the last two twice
C29_Witness ==
    /\ pc = "sanitized"
    /\ conf.start_from_id = 3
    /\ Len(Filtered) = 4
    /\ Len(store) = 5
    /\ Occurrences(Filtered[2].id) = 1
    /\ Occurrences(Filtered[3].id) = 2

\* C30: a run that gets to render or to replay has performed exactly two
\* scans of the store when it ends: one for the full record set and one for
\* the sanitized set.
C30_TwoScansPerRun ==
    (pc = "exited" /\ (exit_message = "done." \/ request_num >= 1)) =>
        scans = 2

\* C31: every non-interactive run ends, each HTTP call returning or
\* raising: the sanitized list is finite, at most twice the filtered list,
\* and the loop issues at most one request per entry of it before the
\* process exits.
C31_BatchRunTerminates ==
    /\ [](/\ Len(records_to_replay) <= 2 * Len(Filtered)
          /\ Len(requests) <= Len(records_to_replay)
          /\ request_num <= Len(records_to_replay) + 1)
    /\ <>(pc = "exited")

\* a run that went through a list twice as long as the filtered list: one
\* request for each entry, and the script ended
C31_Witness ==
    /\ pc = "exited"
    /\ ~conf.interactive
    /\ Len(Filtered) = 2
    /\ Len(records_to_replay) = 4
    /\ Len(requests) = 4
    /\ exit_code = 0

\* C32: whatever keys are pressed and whatever height the terminal reports,
\* 0 and 1 included, a turn of the pager never moves the top line back and
\* leaves it within 0..total_lines.
C32_TopLineMonotoneInRange ==
    [][pc = "pager" =>
          /\ current_line' >= current_line
          /\ current_line' >= 0
          /\ current_line' <= total_lines]_vars

\* the display loop has ended
LeftPager == pc = "printed"

\* the pager shows the last line of the content
OnLastLine == pc = "pager" /\ current_line = total_lines - 1

\* the page key alone leads past the end: no multiple of the page size is
\* the index of the last line
SpaceLeaves == arg.lines = 0 \/ (arg.lines - 1) % (arg.rows - 1) # 0

\* C33 as stated: for every content length and every page size >= 1 a user
\* who presses only the page key eventually leaves the pager.
C33_SpaceEventuallyLeaves == <>LeftPager

\* C33: with a page size >= 1 a user who presses only the page key leaves
\* the pager exactly when the last line's index is no multiple of the page
\* size; otherwise the pager comes to the last line and stays there.
C33_SpaceLeavesOrRestsOnLastLine ==
    /\ SpaceLeaves => <>LeftPager
    /\ ~SpaceLeaves => <>[]OnLastLine

\* five lines on a terminal of three rows: two presses of the page key have
\* brought the pager to the last line
C33_Witness ==
    /\ pc = "pager"
    /\ arg.rows = 3
    /\ page_size = 2
    /\ total_lines = 5
    /\ current_line = 4
====
